---------------------------- MODULE Spec2Model ----------------------------
(***************************************************************************)
(* One-Wire Interface (OWI) bus manager: the ROM commands of OWI.h         *)
(* (search_rom, read_rom, match_rom, skip_rom, alarm_search), the ROM      *)
(* search pass, the buffer read with its CRC accumulator, and the two      *)
(* enumeration loops of the example sketch, run against a bus of slave     *)
(* devices that follow the 1-Wire search protocol.                         *)
(***************************************************************************)
EXTENDS Integers, Sequences, FiniteSets, TLC

VARIABLES
  devices,   \* ROM codes of the devices attached to the bus
  alarms,    \* the devices whose alarm condition is set
  code,      \* the caller's 8-byte ROM buffer (Device::m_rom)
  m_crc,     \* OWI::m_crc, the intermediate CRC sum
  buf,       \* the caller's buffer of read(buf, count)
  pc,        \* "idle", "setup" or "loop" (the sketch); "returned" after a
             \* direct call, "hung" for a call that has not returned
  family,    \* family code the running setup() enumeration asks for
  last,      \* the sketch's local cursor `last`
  chain,     \* what the running (or last finished) enumeration returned
  prev,      \* what the enumeration before it returned
  call,      \* the last call of the public interface: arguments and result
  bus,       \* the bus operations of that call, in order
  runs       \* enumerations started so far

vars == <<devices, alarms, code, m_crc, buf, pc, family, last, chain, prev,
          call, bus, runs>>

---------------------------------------------------------------------------
(* Program constants. *)

CHARBITS == 8
ROM_MAX == 8
ROMBITS == ROM_MAX * CHARBITS

FIRST == -1
ERROR == -1
LAST == ROMBITS

SEARCH_ROM == 240
READ_ROM == 51
MATCH_ROM == 85
SKIP_ROM == 204
ALARM_SEARCH == 236

(* Bounds of the model. *)
MaxRuns == 2
PassLimit == 8
MaxData == 2

---------------------------------------------------------------------------
(* Bytes and bits. *)

Pow2(n) == 2 ^ n

\* (b >> j) & 1
Bit(b, j) == (b \div Pow2(j)) % 2

\* bit at search position pos of a ROM code: bit pos % 8 of byte pos / 8
RomBit(rom, pos) == Bit(rom[(pos \div CHARBITS) + 1], pos % CHARBITS)

Bytes == 0..255

\* a ^ b on bytes
RECURSIVE XorFrom(_, _, _)
XorFrom(a, b, j) ==
  IF j = CHARBITS THEN 0
  ELSE ((Bit(a, j) + Bit(b, j)) % 2) * Pow2(j) + XorFrom(a, b, j + 1)

Xor(a, b) == XorFrom(a, b, 0)

(* The check sum the physical layer's read(bits) keeps in m_crc, one step    *)
(* per bit read: the CRC8 of the ROM code and the scratchpad                *)
(* (x^8 + x^5 + x^4 + 1, shifted right, 0x8C).                              *)
CrcPoly == 140

CrcStep(c, b) ==
  IF (c + b) % 2 = 1 THEN Xor(c \div 2, CrcPoly) ELSE c \div 2

\* CrcStep, tabulated: entry 2 * c + b + 1 is CrcStep(c, b)
CrcTable == [k \in 1..512 |-> CrcStep((k - 1) \div 2, (k - 1) % 2)]

CrcBit(crc, b) == CrcTable[2 * crc + b + 1]

\* m_crc after read(2) has returned pair
CrcPair(crc, pair) == CrcBit(CrcBit(crc, pair % 2), pair \div 2)

\* m_crc after read(8) has returned value
CrcByte(crc, value) ==
  LET c0 == CrcBit(crc, Bit(value, 0))
      c1 == CrcBit(c0, Bit(value, 1))
      c2 == CrcBit(c1, Bit(value, 2))
      c3 == CrcBit(c2, Bit(value, 3))
      c4 == CrcBit(c3, Bit(value, 4))
      c5 == CrcBit(c4, Bit(value, 5))
      c6 == CrcBit(c5, Bit(value, 6))
  IN CrcBit(c6, Bit(value, 7))

\* the CRC8 of a block of bytes, from the sum crc
RECURSIVE CrcBytes(_, _)
CrcBytes(crc, s) ==
  IF s = <<>> THEN crc
  ELSE LET c == CrcByte(crc, Head(s))
       IN IF c \in Bytes THEN CrcBytes(c, Tail(s)) ELSE c

---------------------------------------------------------------------------
(* The devices. A ROM code is family, six serial bytes, CRC8 of the seven. *)

MkRom(fam, serial) ==
  LET d == <<fam>> \o serial IN d \o <<CrcBytes(0, d)>>

DS18S20 == 16
DS18B20 == 40
DS1822 == 34

RomA == MkRom(DS18S20, <<1, 0, 0, 0, 0, 0>>)
RomB == MkRom(DS18B20, <<1, 0, 0, 0, 0, 0>>)
RomC == MkRom(DS18B20, <<5, 0, 128, 0, 0, 0>>)
RomD == MkRom(DS1822, <<255, 7, 0, 0, 0, 9>>)

Universe == {RomA, RomB, RomC, RomD}

\* family arguments: the wildcard, the families present, one that is absent
Families == {0, DS18S20, DS18B20, DS1822, 66}

ZeroRom == [i \in 1..ROM_MAX |-> 0]

---------------------------------------------------------------------------
(* The bus as one call sees it. A fault is the moment the bus falls silent: *)
(* in the pass-th transaction of the call, at the reset (stage -1) or at    *)
(* the bit position stage; heal says whether the devices answer again from  *)
(* the next reset on. pass = 0 is a bus without fault.                      *)

NoFault == [pass |-> 0, stage |-> ROMBITS, heal |-> TRUE]

Silent(n, stage, f) ==
  /\ f.pass # 0
  /\ \/ n = f.pass /\ stage >= f.stage
     \/ n > f.pass /\ ~f.heal

\* first silent bit position of the n-th transaction (ROMBITS: none)
SilentAt(n, f) ==
  IF f.pass = 0 \/ n < f.pass THEN ROMBITS
  ELSE IF n = f.pass THEN f.stage
  ELSE IF f.heal THEN ROMBITS ELSE -1

\* reset(): true when at least one device answers with a presence pulse
reset(n, f) == devices # {} /\ ~Silent(n, -1, f)

(* read(2) of a search pass: every device still taking part sends its bit  *)
(* and then the complement; the line is the AND of what is sent, and the   *)
(* first bit read is bit 0 of the value.                                   *)
ReadPair(act, pos) ==
  (IF \A d \in act : RomBit(d, pos) = 1 THEN 1 ELSE 0)
  + 2 * (IF \A d \in act : RomBit(d, pos) = 0 THEN 1 ELSE 0)

\* the devices that take part in the search a command byte starts
Responders(cmd) ==
  IF cmd = SEARCH_ROM THEN devices
  ELSE IF cmd = ALARM_SEARCH THEN alarms
  ELSE {}

\* the devices that stay in the search after the master wrote bit w
Remaining(act, pos, w) == {d \in act : RomBit(d, pos) = w}

---------------------------------------------------------------------------
(* OWI::search, one pass.                                                  *)

\* Discrepancy whose pos > last branch follows the buffer's bit, as the
\* pos < last branch does
DiscrepancyOldBits(pos, lst, codebit) ==
  IF pos = lst THEN [w |-> 1, last |-> FIRST, mark |-> FALSE]
  ELSE IF codebit # 0 THEN [w |-> 1, last |-> lst, mark |-> FALSE]
  ELSE [w |-> 0, last |-> lst, mark |-> TRUE]

\* Discrepancy whose pos < last branch writes 0 without next = pos
DiscrepancyNoMark(pos, lst, codebit) ==
  IF pos = lst THEN [w |-> 1, last |-> FIRST, mark |-> FALSE]
  ELSE IF pos > lst THEN [w |-> 0, last |-> lst, mark |-> TRUE]
  ELSE IF codebit # 0 THEN [w |-> 1, last |-> lst, mark |-> FALSE]
  ELSE [w |-> 0, last |-> lst, mark |-> FALSE]

\* Discrepancy without the pos == last branch: the position is handled as
\* pos > last or pos < last are
DiscrepancyNoLast(pos, lst, codebit) ==
  IF pos >= lst THEN [w |-> 0, last |-> lst, mark |-> TRUE]
  ELSE IF codebit # 0 THEN [w |-> 1, last |-> lst, mark |-> FALSE]
  ELSE [w |-> 0, last |-> lst, mark |-> TRUE]

\* Discrepancy whose pos < last branch sets next = pos for a written 1 too
DiscrepancyMarkOne(pos, lst, codebit) ==
  IF pos = lst THEN [w |-> 1, last |-> FIRST, mark |-> FALSE]
  ELSE IF pos > lst THEN [w |-> 0, last |-> lst, mark |-> TRUE]
  ELSE IF codebit # 0 THEN [w |-> 1, last |-> lst, mark |-> TRUE]
  ELSE [w |-> 0, last |-> lst, mark |-> TRUE]

\* Discrepancy whose pos > last branch takes the 1-branch first
DiscrepancyOneFirst(pos, lst, codebit) ==
  IF pos = lst THEN [w |-> 1, last |-> FIRST, mark |-> FALSE]
  ELSE IF pos > lst THEN [w |-> 1, last |-> lst, mark |-> TRUE]
  ELSE IF codebit # 0 THEN [w |-> 1, last |-> lst, mark |-> FALSE]
  ELSE [w |-> 0, last |-> lst, mark |-> TRUE]

\* Discrepancy that compares pos with last as an unsigned byte: FIRST is 255
DiscrepancyUnsigned(pos, lst, codebit) ==
  IF pos = lst % 256 THEN [w |-> 1, last |-> FIRST, mark |-> FALSE]
  ELSE IF pos > lst % 256 THEN [w |-> 0, last |-> lst, mark |-> TRUE]
  ELSE IF codebit # 0 THEN [w |-> 1, last |-> lst, mark |-> FALSE]
  ELSE [w |-> 0, last |-> lst, mark |-> TRUE]

\* case 0b00: the bit written, the cursor after it, whether next = pos
Discrepancy(pos, lst, codebit) ==
  IF pos = lst THEN [w |-> 1, last |-> FIRST, mark |-> FALSE]
  ELSE IF pos > lst THEN [w |-> 0, last |-> lst, mark |-> TRUE]
  ELSE IF codebit # 0 THEN [w |-> 1, last |-> lst, mark |-> FALSE]
  ELSE [w |-> 0, last |-> lst, mark |-> TRUE]

\* Decide with the cases 0b01 and 0b10 exchanged
DecideSwapped(pair, pos, lst, codebit) ==
  CASE pair = 0 -> Discrepancy(pos, lst, codebit)
    [] pair = 1 -> [w |-> 0, last |-> lst, mark |-> FALSE]
    [] pair = 2 -> [w |-> 1, last |-> lst, mark |-> FALSE]

\* the switch on read(2) for the pairs 0b00, 0b01, 0b10
Decide(pair, pos, lst, codebit) ==
  CASE pair = 0 -> Discrepancy(pos, lst, codebit)
    [] pair = 1 -> [w |-> 1, last |-> lst, mark |-> FALSE]
    [] pair = 2 -> [w |-> 0, last |-> lst, mark |-> FALSE]

\* ShiftIn with the byte built from the other end: data <<= 1, data |= 1
ShiftInLeft(data, w) == ((data * 2) % 256) + (IF w = 1 THEN 1 ELSE 0)

\* data after data >>= 1 and, for a written 1, data |= 0x80
ShiftIn(data, w) == (data \div 2) + (IF w = 1 THEN 128 ELSE 0)

\* the body of the inner loop at bit j of byte i: data >>= 1, the switch on
\* read(2), pos += 1
SearchBit(st, i, j, silentAt) ==
  LET pos == CHARBITS * i + j
      act == IF pos >= silentAt THEN {} ELSE st.act
      pair == ReadPair(act, pos)
      crc == CrcPair(st.crc, pair)
      bus1 == Append(st.bus, <<"read", 2, pair>>)
  IN IF pair = 3
     THEN [st EXCEPT !.err = TRUE, !.crc = crc, !.bus = bus1]
     ELSE
       LET br == Decide(pair, pos, st.last, Bit(st.code[i + 1], j))
       IN [code |-> st.code,
           data |-> ShiftIn(st.data, br.w),
           last |-> br.last,
           next |-> IF br.mark THEN pos ELSE st.next,
           act  |-> Remaining(act, pos, br.w),
           crc  |-> crc,
           bus  |-> Append(bus1, <<"write", br.w, 1>>),
           err  |-> FALSE]

\* the inner loop, for (j = 0; j < 8; j++), from bit j of byte i on
RECURSIVE SearchBits(_, _, _, _)
SearchBits(st, i, j, silentAt) ==
  IF j = CHARBITS \/ st.err THEN st
  ELSE SearchBits(SearchBit(st, i, j, silentAt), i, j + 1, silentAt)

\* the outer loop, for (i = 0; i < 8; i++), from byte i on: data = 0, the
\* inner loop, code[i] = data
RECURSIVE SearchBytes(_, _, _)
SearchBytes(st, i, silentAt) ==
  IF i = ROM_MAX \/ st.err THEN st
  ELSE
    LET s == SearchBits([st EXCEPT !.data = 0], i, 0, silentAt)
    IN IF s.err THEN s
       ELSE SearchBytes([s EXCEPT !.code[i + 1] = s.data], i + 1, silentAt)

\* search that returns last, the cursor it was given, instead of next
searchReturnsLast(codeIn, lastIn, cmd, silentAt, crc, bus0) ==
  LET s == SearchBytes([code |-> codeIn, data |-> 0, last |-> lastIn,
                        next |-> LAST, act |-> Responders(cmd), crc |-> crc,
                        bus |-> bus0, err |-> FALSE], 0, silentAt)
  IN [ret |-> IF s.err THEN ERROR ELSE s.last, code |-> s.code,
      crc |-> s.crc, bus |-> s.bus]

\* search(code, last), after the command byte cmd was written
search(codeIn, lastIn, cmd, silentAt, crc, bus0) ==
  LET s == SearchBytes([code |-> codeIn, data |-> 0, last |-> lastIn,
                        next |-> LAST, act |-> Responders(cmd), crc |-> crc,
                        bus |-> bus0, err |-> FALSE], 0, silentAt)
  IN [ret |-> IF s.err THEN ERROR ELSE s.next, code |-> s.code,
      crc |-> s.crc, bus |-> s.bus]

---------------------------------------------------------------------------
(* The ROM commands.  Each yields the value returned, the ROM buffer and    *)
(* m_crc after the call, the bus operations made and the search passes     *)
(* run; hung marks a call that is still looping after PassLimit passes.    *)

\* the loop condition with the family test turned round: code[0] == family
LoopAgainOnMatch(lst, fam, rom) == (lst # LAST) /\ (fam # 0) /\ (rom[1] = fam)

\* the loop condition without the test for LAST
LoopAgainPastLast(lst, fam, rom) == (fam # 0) /\ (rom[1] # fam)

\* the condition of search_rom's do-while
LoopAgain(lst, fam, rom) == (lst # LAST) /\ (fam # 0) /\ (rom[1] # fam)

Failed(ret, codeIn, crc, bus0, n) ==
  [ret |-> ret, code |-> codeIn, crc |-> crc,
   bus |-> Append(bus0, <<"reset", FALSE>>), passes |-> n, hung |-> FALSE]

\* one iteration of search_rom's loop: reset, write(SEARCH_ROM), search
SearchRomPass(n, codeIn, lastIn, crc, bus0, f) ==
  search(codeIn, lastIn, SEARCH_ROM, SilentAt(n, f), crc,
         bus0 \o << <<"reset", TRUE>>, <<"write", SEARCH_ROM, CHARBITS>> >>)

RECURSIVE SearchRomFrom(_, _, _, _, _, _, _)
SearchRomFrom(n, fam, codeIn, lastIn, crc, bus0, f) ==
  IF n > PassLimit
  THEN [ret |-> lastIn, code |-> codeIn, crc |-> crc, bus |-> bus0,
        passes |-> n - 1, hung |-> TRUE]
  ELSE IF ~reset(n, f) THEN Failed(ERROR, codeIn, crc, bus0, n - 1)
  ELSE
    LET s == SearchRomPass(n, codeIn, lastIn, crc, bus0, f)
    IN IF LoopAgain(s.ret, fam, s.code)
       THEN SearchRomFrom(n + 1, fam, s.code, s.ret, s.crc, s.bus, f)
       ELSE [ret |-> s.ret, code |-> s.code, crc |-> s.crc, bus |-> s.bus,
             passes |-> n, hung |-> FALSE]

search_rom(fam, codeIn, lastIn, crc, f) ==
  SearchRomFrom(1, fam, codeIn, lastIn, crc, <<>>, f)

\* alarm_search that does not look at what reset() returns
alarm_searchNoReset(codeIn, lastIn, crc, f) ==
  LET s == search(codeIn, lastIn, ALARM_SEARCH, SilentAt(1, f), crc,
                  << <<"reset", reset(1, f)>>,
                     <<"write", ALARM_SEARCH, CHARBITS>> >>)
  IN [ret |-> s.ret, code |-> s.code, crc |-> s.crc, bus |-> s.bus,
      passes |-> 1, hung |-> FALSE]

\* alarm_search that writes SEARCH_ROM
alarm_searchAsSearch(codeIn, lastIn, crc, f) ==
  IF ~reset(1, f) THEN Failed(ERROR, codeIn, crc, <<>>, 0)
  ELSE
    LET s == search(codeIn, lastIn, SEARCH_ROM, SilentAt(1, f), crc,
                    << <<"reset", TRUE>>, <<"write", SEARCH_ROM, CHARBITS>> >>)
    IN [ret |-> s.ret, code |-> s.code, crc |-> s.crc, bus |-> s.bus,
        passes |-> 1, hung |-> FALSE]

alarm_search(codeIn, lastIn, crc, f) ==
  IF ~reset(1, f) THEN Failed(ERROR, codeIn, crc, <<>>, 0)
  ELSE
    LET s == search(codeIn, lastIn, ALARM_SEARCH, SilentAt(1, f), crc,
                    << <<"reset", TRUE>>, <<"write", ALARM_SEARCH, CHARBITS>> >>)
    IN [ret |-> s.ret, code |-> s.code, crc |-> s.crc, bus |-> s.bus,
        passes |-> 1, hung |-> FALSE]

\* read(buf, count) without m_crc = 0
readNoClear(wire, crc0, bus0) ==
  LET crc == CrcBytes(crc0, wire)
  IN [ret |-> (crc = 0), bytes |-> wire, crc |-> crc,
      bus |-> bus0 \o [k \in 1..Len(wire) |-> <<"read", CHARBITS, wire[k]>>]]

(* read(buf, count): m_crc = 0, then count times *bp++ = read(), each of   *)
(* which steps m_crc by the eight bits read; wire is the count bytes the   *)
(* bus delivers.                                                           *)
read(wire, crc0, bus0) ==
  LET crc == CrcBytes(0, wire)
  IN [ret |-> (crc = 0), bytes |-> wire, crc |-> crc,
      bus |-> bus0 \o [k \in 1..Len(wire) |-> <<"read", CHARBITS, wire[k]>>]]

(* READ_ROM on the wire: every device sends its code, the line is the AND. *)
WireBit(pos, silentAt) ==
  IF pos >= silentAt \/ \A d \in devices : RomBit(d, pos) = 1 THEN 1 ELSE 0

\* read(8) of byte i: the first bit read is bit 0
WireByte(i, silentAt) ==
  WireBit(CHARBITS * i, silentAt)
  + 2 * WireBit(CHARBITS * i + 1, silentAt)
  + 4 * WireBit(CHARBITS * i + 2, silentAt)
  + 8 * WireBit(CHARBITS * i + 3, silentAt)
  + 16 * WireBit(CHARBITS * i + 4, silentAt)
  + 32 * WireBit(CHARBITS * i + 5, silentAt)
  + 64 * WireBit(CHARBITS * i + 6, silentAt)
  + 128 * WireBit(CHARBITS * i + 7, silentAt)

WireRom(silentAt) == [i \in 1..ROM_MAX |-> WireByte(i - 1, silentAt)]

\* read_rom that reads ROM_MAX - 1 bytes
read_romShort(codeIn, crc, f) ==
  IF ~reset(1, f) THEN Failed(FALSE, codeIn, crc, <<>>, 0)
  ELSE
    LET r == read(SubSeq(WireRom(SilentAt(1, f)), 1, ROM_MAX - 1), crc,
                  << <<"reset", TRUE>>, <<"write", READ_ROM, CHARBITS>> >>)
    IN [ret |-> r.ret, code |-> r.bytes \o <<codeIn[ROM_MAX]>>, crc |-> r.crc,
        bus |-> r.bus, passes |-> 0, hung |-> FALSE]

read_rom(codeIn, crc, f) ==
  IF ~reset(1, f) THEN Failed(FALSE, codeIn, crc, <<>>, 0)
  ELSE
    LET r == read(WireRom(SilentAt(1, f)), crc,
                  << <<"reset", TRUE>>, <<"write", READ_ROM, CHARBITS>> >>)
    IN [ret |-> r.ret, code |-> r.bytes, crc |-> r.crc, bus |-> r.bus,
        passes |-> 0, hung |-> FALSE]

\* write(value, buf, count) that writes the bytes of buf before value
writeBufFirst(value, bytes, bus0) ==
  bus0 \o [k \in 1..Len(bytes) |-> <<"write", bytes[k], CHARBITS>>]
       \o << <<"write", value, CHARBITS>> >>

\* write(value, buf, count): the command byte, then the bytes of buf
write(value, bytes, bus0) ==
  bus0 \o << <<"write", value, CHARBITS>> >>
       \o [k \in 1..Len(bytes) |-> <<"write", bytes[k], CHARBITS>>]

match_rom(codeIn, crc, f) ==
  IF ~reset(1, f) THEN Failed(FALSE, codeIn, crc, <<>>, 0)
  ELSE [ret |-> TRUE, code |-> codeIn, crc |-> crc,
        bus |-> write(MATCH_ROM, codeIn, << <<"reset", TRUE>> >>),
        passes |-> 0, hung |-> FALSE]

skip_rom(codeIn, crc, f) ==
  IF ~reset(1, f) THEN Failed(FALSE, codeIn, crc, <<>>, 0)
  ELSE [ret |-> TRUE, code |-> codeIn, crc |-> crc,
        bus |-> << <<"reset", TRUE>>, <<"write", SKIP_ROM, CHARBITS>> >>,
        passes |-> 0, hung |-> FALSE]

---------------------------------------------------------------------------
(* State.                                                                  *)

\* call: the command called, its arguments, the buffer and m_crc it found,
\* the value it returned, the bus it ran on; for read(buf, count) the block
\* the device sent and the bit flipped on the way (-1: none)
NoCall == [op |-> "none", family |-> 0, last |-> FIRST, code |-> ZeroRom,
           crc |-> 0, ret |-> 0, fault |-> NoFault, passes |-> 0,
           sent |-> <<>>, flip |-> -1]

\* chain: the loop that runs, the codes each call left and the cursors each
\* call returned; status is "run", "last" (ended by LAST), "error" (ended by
\* the break) or "hung" (a call that does not return)
NoChain == [kind |-> "none", family |-> 0, found |-> <<>>, cursors |-> <<>>,
            status |-> "none"]

\* the sketch: owi and sensor are globals, so m_crc and m_rom start zeroed
Init ==
  /\ devices \in SUBSET Universe
  /\ alarms \in SUBSET devices
  /\ code = ZeroRom
  /\ m_crc = 0
  /\ buf = <<>>
  /\ pc = "idle"
  /\ family = 0
  /\ last = FIRST
  /\ chain = NoChain
  /\ prev = NoChain
  /\ call = NoCall
  /\ bus = <<>>
  /\ runs = 0

\* what one call of an enumeration loop adds to the loop's record
Extend(ch, r) ==
  IF r.hung THEN [ch EXCEPT !.status = "hung"]
  ELSE [ch EXCEPT
          !.found = IF r.ret = ERROR THEN @ ELSE Append(@, r.code),
          !.cursors = Append(@, r.ret),
          !.status = IF r.ret = ERROR THEN "error"
                     ELSE IF r.ret = LAST THEN "last" ELSE "run"]

Record(op, fam, lst, r, f) ==
  [op |-> op, family |-> fam, last |-> lst, code |-> code, crc |-> m_crc,
   ret |-> r.ret, fault |-> f, passes |-> r.passes, sent |-> <<>>,
   flip |-> -1]

\* where the loop goes after a call: out at ERROR (break) and at LAST
After(r, loop) ==
  IF r.hung THEN "hung"
  ELSE IF r.ret = ERROR \/ r.ret = LAST THEN "idle" ELSE loop

(* setup(): rom = sensor.rom(); last = FIRST; do { last = search_rom(       *)
(* FAMILY_CODE, rom, last); if (last == ERROR) break; ... }                 *)
(* while (last != LAST).                                                    *)
SetupBegin(fam) ==
  /\ pc = "idle"
  /\ runs < MaxRuns
  /\ pc' = "setup"
  /\ family' = fam
  /\ last' = FIRST
  /\ prev' = chain
  /\ chain' = [NoChain EXCEPT !.kind = "search", !.family = fam,
                              !.status = "run"]
  /\ runs' = runs + 1
  /\ UNCHANGED <<devices, alarms, code, m_crc, buf, call, bus>>

SetupIter ==
  /\ pc = "setup"
  /\ \E r \in {search_rom(family, code, last, m_crc, NoFault)} :
        /\ code' = r.code
        /\ m_crc' = r.crc
        /\ last' = r.ret
        /\ chain' = Extend(chain, r)
        /\ call' = Record("search_rom", family, last, r, NoFault)
        /\ bus' = r.bus
        /\ pc' = After(r, "setup")
  /\ UNCHANGED <<devices, alarms, buf, family, prev, runs>>

(* loop(): last = FIRST; rom = sensor.rom(); do { last = alarm_search(rom,  *)
(* last); if (last == ERROR) break; ... } while (last != LAST).             *)
LoopBegin ==
  /\ pc = "idle"
  /\ runs < MaxRuns
  /\ pc' = "loop"
  /\ last' = FIRST
  /\ prev' = chain
  /\ chain' = [NoChain EXCEPT !.kind = "alarm", !.status = "run"]
  /\ runs' = runs + 1
  /\ UNCHANGED <<devices, alarms, code, m_crc, buf, family, call, bus>>

LoopIter ==
  /\ pc = "loop"
  /\ \E r \in {alarm_search(code, last, m_crc, NoFault)} :
        /\ code' = r.code
        /\ m_crc' = r.crc
        /\ last' = r.ret
        /\ chain' = Extend(chain, r)
        /\ call' = Record("alarm_search", 0, last, r, NoFault)
        /\ bus' = r.bus
        /\ pc' = After(r, "loop")
  /\ UNCHANGED <<devices, alarms, buf, family, prev, runs>>

Next ==
  \/ \E fam \in Families : SetupBegin(fam)
  \/ SetupIter
  \/ LoopBegin
  \/ LoopIter

Spec == Init /\ [][Next]_vars

---------------------------------------------------------------------------
(* One direct call of a ROM command, on any bus, buffer and cursor.        *)

OnesRom == [i \in 1..ROM_MAX |-> 255]

\* buffers a caller may pass: Device(owi, rom) copies any 8 bytes
Buffers == {ZeroRom, OnesRom, RomC}

\* where the bus falls silent: at the reset, or at one of these positions
FaultStages == {-1, 0, 10, ROMBITS - 1}

Faults == {[pass |-> k, stage |-> s, heal |-> h] :
             k \in 1..2, s \in FaultStages, h \in BOOLEAN}

\* the faults of a command that makes one transaction
Faults1 == {f \in Faults : f.pass = 1}

\* cursors passed as last: FIRST, the positions where two devices of
\* Universe first differ (1, 3, 10), positions before, between and after
\* them where none do, the last one
Cursors == {FIRST, 0, 1, 2, 3, 4, 10, 40, ROMBITS - 1}

\* the (last, fault) pairs of a direct search call
SearchInputs == (Cursors \X {NoFault}) \cup ({FIRST} \X Faults)

AlarmInputs == (Cursors \X {NoFault}) \cup ({FIRST} \X Faults1)

InitCall ==
  /\ devices \in SUBSET Universe
  /\ alarms \in SUBSET devices
  /\ code \in Buffers
  /\ m_crc = 0
  /\ buf = <<>>
  /\ pc = "idle"
  /\ family = 0
  /\ last = FIRST
  /\ chain = NoChain
  /\ prev = NoChain
  /\ call = NoCall
  /\ bus = <<>>
  /\ runs = 0

Return(op, fam, lst, r, f) ==
  /\ code' = r.code
  /\ m_crc' = r.crc
  /\ call' = Record(op, fam, lst, r, f)
  /\ bus' = r.bus
  /\ pc' = IF r.hung THEN "hung" ELSE "returned"
  /\ UNCHANGED <<devices, alarms, buf, family, last, chain, prev, runs>>

CallSearchRom(fam, lst, f) ==
  /\ pc = "idle"
  /\ \E r \in {search_rom(fam, code, lst, m_crc, f)} :
       Return("search_rom", fam, lst, r, f)

CallAlarmSearch(lst, f) ==
  /\ pc = "idle"
  /\ \E r \in {alarm_search(code, lst, m_crc, f)} :
       Return("alarm_search", 0, lst, r, f)

CallReadRom(f) ==
  /\ pc = "idle"
  /\ \E r \in {read_rom(code, m_crc, f)} : Return("read_rom", 0, FIRST, r, f)

CallMatchRom(f) ==
  /\ pc = "idle"
  /\ \E r \in {match_rom(code, m_crc, f)} : Return("match_rom", 0, FIRST, r, f)

CallSkipRom(f) ==
  /\ pc = "idle"
  /\ \E r \in {skip_rom(code, m_crc, f)} : Return("skip_rom", 0, FIRST, r, f)

NextCall ==
  \/ \E fam \in {0, DS18B20}, in \in SearchInputs :
       CallSearchRom(fam, in[1], in[2])
  \/ \E lst \in Cursors : CallSearchRom(66, lst, NoFault)
  \/ \E in \in AlarmInputs : CallAlarmSearch(in[1], in[2])
  \/ \E f \in Faults1 \cup {NoFault} : CallReadRom(f)
  \/ \E f \in Faults1 \cup {NoFault} : CallMatchRom(f)
  \/ \E f \in Faults1 \cup {NoFault} : CallSkipRom(f)

SpecCall == InitCall /\ [][NextCall]_vars

---------------------------------------------------------------------------
(* read(buf, count) of a block a device sends with its CRC8 as last byte,   *)
(* unmodified or with one bit flipped on the way.                           *)

DataBytes == {0, 1, 40, 128, 255}

\* the data a device sends before the check byte
Data == UNION {[1..n -> DataBytes] : n \in 0..MaxData}

\* blocks that end with the CRC8 of the bytes before
CheckedBlocks == {d \o <<CrcBytes(0, d)>> : d \in Data} \cup Universe

\* block with bit k flipped (bit k % 8 of byte k / 8); k = -1: unmodified
Transit(block, k) ==
  IF k = -1 THEN block
  ELSE [block EXCEPT ![(k \div CHARBITS) + 1] =
          IF Bit(@, k % CHARBITS) = 1 THEN @ - Pow2(k % CHARBITS)
          ELSE @ + Pow2(k % CHARBITS)]

\* m_crc before the call: no constructor sets it; searches and reads leave
\* any value in it
CrcSeeds == {0, 1, 165, 255}

InitRead ==
  /\ devices = {RomB}
  /\ alarms = {}
  /\ code = RomB
  /\ m_crc \in CrcSeeds
  /\ buf = <<>>
  /\ pc = "idle"
  /\ family = 0
  /\ last = FIRST
  /\ chain = NoChain
  /\ prev = NoChain
  /\ call = NoCall
  /\ bus = <<>>
  /\ runs = 0

CallRead(block, k) ==
  /\ pc = "idle"
  /\ \E r \in {read(Transit(block, k), m_crc, <<>>)} :
       /\ buf' = r.bytes
       /\ m_crc' = r.crc
       /\ call' = [NoCall EXCEPT !.op = "read", !.code = code, !.crc = m_crc,
                                 !.ret = r.ret, !.sent = block, !.flip = k]
       /\ bus' = r.bus
       /\ pc' = "returned"
  /\ UNCHANGED <<devices, alarms, code, family, last, chain, prev, runs>>

NextRead ==
  \E block \in CheckedBlocks :
    \E k \in -1..(CHARBITS * Len(block) - 1) : CallRead(block, k)

SpecRead == InitRead /\ [][NextRead]_vars

---------------------------------------------------------------------------
(* Properties.                                                             *)

Range(s) == {s[k] : k \in 1..Len(s)}

Max(S) == CHOOSE x \in S : \A y \in S : y <= x

Min(S) == CHOOSE x \in S : \A y \in S : x <= y

Distinct(s) == \A i, j \in 1..Len(s) : i # j => s[i] # s[j]

SearchOps == {"search_rom", "alarm_search"}

\* an enumeration loop's record: every call so far returned a cursor and left
\* a code of S not left before, LAST came on the call that left the last
\* code of S and on no other, and a loop that is over ended with LAST
Enumerates(ch, S) ==
  LET n == Cardinality(S)
      k == Len(ch.cursors)
  IN /\ ch.status \in {"run", "last"}
     /\ k <= n
     /\ Len(ch.found) = k
     /\ \A i \in 1..k : ch.cursors[i] # ERROR
     /\ \A i \in 1..k : (ch.cursors[i] = LAST) <=> (i = n)
     /\ Distinct(ch.found)
     /\ Range(ch.found) \subseteq S
     /\ (ch.status = "last") <=> (k = n)
     /\ (ch.status = "last") => (Range(ch.found) = S)
     /\ (pc = "idle") => (ch.status = "last")

\* C1: on a bus of N >= 1 devices the chained search_rom(0, code, last)
\* enumeration from FIRST makes exactly N calls, never returns ERROR, returns
\* LAST on the N-th call and only on it, and leaves N pairwise distinct
\* codes, exactly the device codes.
C1_Enumeration ==
  (chain.kind = "search" /\ chain.family = 0 /\ devices # {})
    => Enumerates(chain, devices)

C1_Witness ==
  /\ chain.kind = "search"
  /\ chain.family = 0
  /\ devices = Universe
  /\ chain.status = "last"
  /\ Len(chain.found) = Cardinality(Universe)
  /\ code # ZeroRom

\* C2: every call search_rom(F, code, last), F # 0, of a chained
\* enumeration that returns a cursor or LAST leaves a code whose byte 0 is F.
C2_FamilyFilter ==
  (/\ chain.kind = "search" /\ chain.family # 0
   /\ \E d \in devices : d[1] = chain.family
   /\ \E d \in devices : d[1] # chain.family)
    => \A i \in 1..Len(chain.found) : chain.found[i][1] = chain.family

\* C3: a search_rom or alarm_search call whose pass reads the pair (1,1)
\* returns ERROR and makes no further reset, read or write.
C3_AbortOnNoDevice ==
  (pc = "returned" /\ call.op \in SearchOps)
    => \A k \in 1..Len(bus) :
         (bus[k] = <<"read", 2, 3>>) => (k = Len(bus) /\ call.ret = ERROR)

\* C4: a reset that fails inside a ROM command ends the command with its
\* failure value, nothing is read or written after it, and the code buffer
\* is what it was when the command was called.
C4_ResetFailureFrame ==
  (pc = "returned" /\ call.op # "none")
    => \A k \in 1..Len(bus) :
         (bus[k] = <<"reset", FALSE>>)
           => /\ k = Len(bus)
              /\ call.ret = (IF call.op \in SearchOps THEN ERROR ELSE FALSE)
              /\ code = call.code

\* the positions of the call's last pass where the pair (0,0) was read and
\* 0 was written: the pass is the last 2 * ROMBITS bus operations
ZeroTaken ==
  LET base == Len(bus) - 2 * ROMBITS
  IN {p \in 0..(ROMBITS - 1) :
        /\ bus[base + 2 * p + 1] = <<"read", 2, 0>>
        /\ bus[base + 2 * p + 2] = <<"write", 0, 1>>}

PassDone ==
  pc = "returned" /\ call.op \in SearchOps /\ call.ret # ERROR

\* C5 as stated: a non-error pass returns the smallest position where a
\* (0,0) pair was met and the 0-branch taken, LAST exactly when there is none.
C5_Shallowest ==
  PassDone =>
    call.ret = (IF ZeroTaken = {} THEN LAST ELSE Min(ZeroTaken))

\* C5 amended: a non-error pass returns the largest position where a (0,0)
\* pair was met and the 0-branch taken, LAST exactly when there is none.
C5_Deepest ==
  PassDone =>
    call.ret = (IF ZeroTaken = {} THEN LAST ELSE Max(ZeroTaken))

C5_Witness ==
  /\ PassDone
  /\ call.last # FIRST
  /\ Cardinality(ZeroTaken) >= 2
  /\ \E p \in ZeroTaken : p < call.last
  /\ \E p \in ZeroTaken : p > call.last

\* C6: two full chained enumerations of the same devices with the same
\* family argument give the same sequence of codes and the same sequence of
\* cursors.
C6_Determinism ==
  (/\ prev.kind = "search" /\ chain.kind = "search"
   /\ prev.family = chain.family
   /\ prev.status = "last" /\ chain.status = "last")
    => (chain.found = prev.found /\ chain.cursors = prev.cursors)

C6_Witness ==
  /\ prev.kind = "search" /\ chain.kind = "search"
  /\ prev.family = chain.family
  /\ prev.status = "last" /\ chain.status = "last"
  /\ Len(chain.found) = Cardinality(Universe)

\* C7: with no device on the bus search_rom and alarm_search return ERROR
\* after the failed reset alone: no command byte, no pair read, the code
\* buffer unchanged.
C7_EmptyBus ==
  (pc = "returned" /\ call.op \in SearchOps /\ devices = {})
    => /\ call.ret = ERROR
       /\ bus = << <<"reset", FALSE>> >>
       /\ code = call.code

C7_Witness ==
  /\ pc = "returned"
  /\ devices = {}
  /\ call.op = "search_rom"
  /\ call.family # 0
  /\ call.last # FIRST
  /\ call.code = OnesRom
  /\ call.ret = ERROR

\* C8: on a bus that answers reset, alarm_search from FIRST returns ERROR
\* when no device has its alarm set; otherwise the chained alarm_search
\* enumeration leaves exactly the codes of the alarmed devices, each once,
\* and ends with LAST.
C8_AlarmSubset ==
  (chain.kind = "alarm" /\ devices # {} /\ chain.cursors # <<>>)
    => IF alarms = {}
       THEN chain.cursors = <<ERROR>> /\ chain.found = <<>>
       ELSE Enumerates(chain, alarms)

C8_Witness ==
  /\ chain.kind = "alarm"
  /\ chain.status = "last"
  /\ Cardinality(alarms) = 2
  /\ Cardinality(devices) = Cardinality(Universe)
  /\ Range(chain.found) = alarms

\* C9: with one device on the bus read_rom returns true and leaves the 8
\* bytes that search_rom(0, code, FIRST) leaves from the same buffer, and
\* that search_rom returns LAST.
C9_ReadRomIsSearchRom ==
  (/\ pc = "returned" /\ call.op = "read_rom"
   /\ Cardinality(devices) = 1 /\ call.fault = NoFault)
    => /\ call.ret = TRUE
       /\ LET s == search_rom(0, call.code, FIRST, call.crc, NoFault)
          IN s.ret = LAST /\ s.code = code

C9_Witness ==
  /\ pc = "returned"
  /\ call.op = "read_rom"
  /\ devices = {RomD}
  /\ call.fault = NoFault
  /\ call.code = OnesRom
  /\ code = RomD

\* C10: read(buf, count) of a block that ends with the CRC8 of the bytes
\* before it returns true when the block arrives as sent and false when one
\* bit of it is flipped on the way.
C10_ReadCrc ==
  (pc = "returned" /\ call.op = "read")
    => /\ buf = Transit(call.sent, call.flip)
       /\ call.ret = (call.flip = -1)

C10_Witness ==
  /\ pc = "returned"
  /\ call.op = "read"
  /\ call.crc # 0
  /\ Len(call.sent) = MaxData + 1
  /\ call.flip >= CHARBITS
  /\ call.ret = FALSE

\* a call that ran one search pass, which did not end in ERROR: its bus
\* operations are the reset, the command byte and the pass
SinglePass == PassDone /\ call.passes = 1

\* the pair read and the bit written at position p of the call's last pass
PairAt(p) == bus[Len(bus) - 2 * ROMBITS + 2 * p + 1]

WriteAt(p) == bus[Len(bus) - 2 * ROMBITS + 2 * p + 2]

\* C11: in a search pass each of the 64 positions, in ascending order, has
\* one read(2) followed by one write of one bit; the bit written is the bit
\* stored at that position of the output code: 0 for the pair 0b10, 1 for
\* the pair 0b01, and for the pair 0b00 it is 1 at position last, 0 beyond
\* last, and the bit the buffer held on entry before last.
C11_WrittenIsStored ==
  SinglePass =>
    /\ Len(bus) = 2 + 2 * ROMBITS
    /\ \A p \in 0..(ROMBITS - 1) :
         /\ PairAt(p) \in {<<"read", 2, v>> : v \in 0..2}
         /\ WriteAt(p) = <<"write", RomBit(code, p), 1>>
         /\ (PairAt(p)[3] = 2) => (WriteAt(p)[2] = 0)
         /\ (PairAt(p)[3] = 1) => (WriteAt(p)[2] = 1)
         /\ (PairAt(p)[3] = 0) =>
              WriteAt(p)[2] = (IF p = call.last THEN 1
                               ELSE IF p > call.last THEN 0
                               ELSE RomBit(call.code, p))

C11_Witness ==
  /\ SinglePass
  /\ call.code = RomC
  /\ \E p \in 0..(ROMBITS - 1) : p = call.last /\ PairAt(p)[3] = 0
  /\ \E p \in 0..(ROMBITS - 1) : p < call.last /\ PairAt(p)[3] = 0
  /\ \E p \in 0..(ROMBITS - 1) : p > call.last /\ PairAt(p)[3] = 0

\* the candidate cursor (next) of the call's last pass when it reaches
\* position p: the last position before p where 0 was written at a pair 0b00
NextBefore(p) ==
  LET Z == {q \in ZeroTaken : q < p}
  IN IF Z = {} THEN LAST ELSE Max(Z)

\* the positions before the incoming last where the pass read the pair 0b00
Shallower ==
  {p \in 0..(ROMBITS - 1) : p < call.last /\ PairAt(p) = <<"read", 2, 0>>}

\* no position after p changes the candidate cursor
NextKept(p) == {q \in ZeroTaken : q > p} = {}

\* C12 as stated: at a pair 0b00 before the incoming last the pass writes
\* the bit the buffer holds there and leaves the candidate cursor unchanged,
\* whichever bit that is.
C12_CursorUnchanged ==
  SinglePass =>
    \A p \in Shallower :
      /\ WriteAt(p) = <<"write", RomBit(call.code, p), 1>>
      /\ NextKept(p) => (call.ret = NextBefore(p))

\* C12 amended: at a pair 0b00 before the incoming last the pass writes the
\* bit the buffer holds there; for the bit 1 the candidate cursor is left
\* unchanged, for the bit 0 it becomes this position.
C12_CursorFollowsZero ==
  SinglePass =>
    \A p \in Shallower :
      /\ WriteAt(p) = <<"write", RomBit(call.code, p), 1>>
      /\ NextKept(p) =>
           call.ret = (IF RomBit(call.code, p) = 0 THEN p ELSE NextBefore(p))

C12_Witness ==
  /\ SinglePass
  /\ \E p \in Shallower :
       /\ RomBit(call.code, p) = 0
       /\ NextKept(p)
       /\ NextBefore(p) # LAST
       /\ call.ret = p

\* the command byte of each ROM command
CommandOf(op) ==
  CASE op = "search_rom" -> SEARCH_ROM
    [] op = "read_rom" -> READ_ROM
    [] op = "match_rom" -> MATCH_ROM
    [] op = "skip_rom" -> SKIP_ROM
    [] op = "alarm_search" -> ALARM_SEARCH

RomOps == {"search_rom", "read_rom", "match_rom", "skip_rom", "alarm_search"}

\* the bus operations that start a transaction of the command op
Preamble(op) == << <<"reset", TRUE>>, <<"write", CommandOf(op), CHARBITS>> >>

IsPairRead(e) == Len(e) = 3 /\ e[1] = "read" /\ e[2] = 2

IsBitWrite(e) == Len(e) = 3 /\ e[1] = "write" /\ e[3] = 1

\* C13: in every ROM command a reset that returned true is followed at once
\* by the command's fixed byte, and no command byte is written elsewhere;
\* match_rom then writes the 8 code bytes in ascending order and nothing
\* more, skip_rom nothing more, and every search pass of search_rom
\* comes right after a fresh reset and SEARCH_ROM.
C13_TransactionOrder ==
  (pc \in {"returned", "hung"} /\ call.op \in RomOps) =>
    /\ bus # <<>> /\ bus[1][1] = "reset"
    /\ \A k \in 1..Len(bus) :
         /\ (bus[k] = <<"reset", TRUE>>)
              => (k < Len(bus) /\ bus[k + 1] = Preamble(call.op)[2])
         /\ (call.op # "match_rom" /\ Len(bus[k]) = 3 /\ bus[k][1] = "write"
             /\ bus[k][3] = CHARBITS)
              => (k > 1 /\ SubSeq(bus, k - 1, k) = Preamble(call.op))
         /\ IsPairRead(bus[k])
              => /\ call.op \in SearchOps
                 /\ k > 2
                 /\ \/ IsBitWrite(bus[k - 1])
                    \/ SubSeq(bus, k - 2, k - 1) = Preamble(call.op)
    /\ (call.op = "match_rom" /\ call.ret = TRUE)
         => bus = Preamble("match_rom")
                    \o [i \in 1..ROM_MAX |-> <<"write", call.code[i], CHARBITS>>]
    /\ (call.op = "skip_rom" /\ call.ret = TRUE) => bus = Preamble("skip_rom")
    /\ (call.op = "read_rom" /\ call.ret = TRUE)
         => bus = Preamble("read_rom")
                    \o [i \in 1..ROM_MAX |-> <<"read", CHARBITS, code[i]>>]
    /\ (call.op = "search_rom")
         => Cardinality({k \in 1..Len(bus) : bus[k] = <<"reset", TRUE>>})
              = call.passes

C13_Witness ==
  /\ pc = "returned"
  /\ call.op = "match_rom"
  /\ call.ret = TRUE
  /\ call.code = RomC
  /\ Len(bus) = 2 + ROM_MAX

---------------------------------------------------------------------------
(* One engine used for a sequence of operations that share m_crc: buffer    *)
(* reads of any block, single byte reads, search passes.                   *)

\* blocks a device may send: any bytes, with or without a right check byte
\* (blocks of zeros and ROM codes have one), and no byte at all
EngineBytes == {0, 255}

AnyBlocks ==
  UNION {[1..n -> EngineBytes] : n \in 0..(MaxData + 1)} \cup Universe

\* the buses the engine is used on
EngineBuses == {{RomB}, {RomA, RomC, RomD}}

InitEngine ==
  /\ devices \in EngineBuses
  /\ alarms = {}
  /\ code = ZeroRom
  /\ m_crc = 0
  /\ buf = <<>>
  /\ pc = "idle"
  /\ family = 0
  /\ last = FIRST
  /\ chain = NoChain
  /\ prev = NoChain
  /\ call = NoCall
  /\ bus = <<>>
  /\ runs = 0

\* read(buf, count) of the count = Len(block) bytes the bus delivers
EngineRead(block) ==
  /\ runs < MaxRuns
  /\ \E r \in {read(block, m_crc, <<>>)} :
       /\ buf' = r.bytes
       /\ m_crc' = r.crc
       /\ call' = [NoCall EXCEPT !.op = "read", !.code = code, !.crc = m_crc,
                                 !.ret = r.ret, !.sent = block]
       /\ bus' = r.bus
  /\ runs' = runs + 1
  /\ UNCHANGED <<devices, alarms, code, pc, family, last, chain, prev>>

\* read(): one byte read outside read(buf, count); m_crc is stepped, not
\* cleared
EngineReadByte(value) ==
  /\ runs < MaxRuns
  /\ m_crc' = CrcByte(m_crc, value)
  /\ call' = [NoCall EXCEPT !.op = "read8", !.code = code, !.crc = m_crc,
                            !.ret = value]
  /\ bus' = << <<"read", CHARBITS, value>> >>
  /\ runs' = runs + 1
  /\ UNCHANGED <<devices, alarms, code, buf, pc, family, last, chain, prev>>

\* search_rom(0, code, last): its passes step m_crc at every read(2)
EngineSearch(lst) ==
  /\ runs < MaxRuns
  /\ \E r \in {search_rom(0, code, lst, m_crc, NoFault)} :
       /\ code' = r.code
       /\ m_crc' = r.crc
       /\ call' = Record("search_rom", 0, lst, r, NoFault)
       /\ bus' = r.bus
  /\ runs' = runs + 1
  /\ UNCHANGED <<devices, alarms, buf, pc, family, last, chain, prev>>

NextEngine ==
  \/ \E block \in AnyBlocks : EngineRead(block)
  \/ \E value \in DataBytes : EngineReadByte(value)
  \/ \E lst \in {FIRST, 1} : EngineSearch(lst)

SpecEngine == InitEngine /\ [][NextEngine]_vars

\* C14: read(buf, count) clears m_crc before its first byte read: whatever
\* operations came before, it makes exactly count byte reads, stores them in
\* ascending order, and returns true exactly when the check sum of the bytes
\* of this call is 0, hence true for count = 0.
C14_ReadFromZero ==
  (call.op = "read") =>
    /\ buf = call.sent
    /\ bus = [k \in 1..Len(call.sent) |-> <<"read", CHARBITS, buf[k]>>]
    /\ m_crc = CrcBytes(0, buf)
    /\ call.ret = (CrcBytes(0, buf) = 0)
    /\ (call.sent = <<>>) => (call.ret = TRUE)

C14_Witness ==
  /\ call.op = "read"
  /\ call.crc # 0
  /\ call.sent = <<>>
  /\ call.ret = TRUE
  /\ runs = MaxRuns

\* the devices of family fam
OfFamily(fam) == {d \in devices : d[1] = fam}

\* the calls of the enumeration ch that left the code d
ReturnsOf(ch, d) == {i \in 1..Len(ch.found) : ch.found[i] = d}

\* C15: for a family F # 0 that some device carries, the chained
\* search_rom(F, code, last) enumeration from FIRST runs until LAST and
\* leaves the code of every device of family F at exactly one call return.
C15_FamilyComplete ==
  (chain.kind = "search" /\ chain.family # 0 /\ OfFamily(chain.family) # {})
    => /\ chain.status \in {"run", "last"}
       /\ (pc = "idle") => (chain.status = "last")
       /\ \A d \in OfFamily(chain.family) :
            /\ Cardinality(ReturnsOf(chain, d)) <= 1
            /\ (chain.status = "last")
                 => (Cardinality(ReturnsOf(chain, d)) = 1)

C15_Witness ==
  /\ chain.kind = "search"
  /\ chain.family = DS18B20
  /\ devices = Universe
  /\ chain.status = "last"
  /\ ReturnsOf(chain, RomB) # {}
  /\ ReturnsOf(chain, RomC) # {}
  /\ ReturnsOf(chain, RomA) = {}

\* the devices that answer the search of the command op
Responding(op) == Responders(CommandOf(op))

\* a search call on a bus without fault where some device answers the search
FaithfulSearch ==
  /\ pc = "returned"
  /\ call.op \in SearchOps
  /\ call.fault = NoFault
  /\ Responding(call.op) # {}

\* C16: with at least one device answering and no fault, a search pass from
\* any last and any buffer never reads the pair 0b11, does not return
\* ERROR, and leaves in the buffer the full code of one answering device.
C16_PassFindsDevice ==
  FaithfulSearch =>
    /\ \A k \in 1..Len(bus) : bus[k] # <<"read", 2, 3>>
    /\ call.ret # ERROR
    /\ call.ret \in 0..LAST
    /\ code \in Responding(call.op)

C16_Witness ==
  /\ FaithfulSearch
  /\ call.op = "alarm_search"
  /\ Cardinality(alarms) = 2
  /\ alarms # devices
  /\ call.code = OnesRom
  /\ call.last = 2
  /\ code \in alarms

\* a before b as 64-bit strings, position 0 (bit 0 of byte 0) most
\* significant
Less(a, b) ==
  \E p \in 0..(ROMBITS - 1) :
    /\ RomBit(a, p) < RomBit(b, p)
    /\ \A q \in 0..(p - 1) : RomBit(a, q) = RomBit(b, q)

Smallest(S) == CHOOSE a \in S : \A b \in S \ {a} : Less(a, b)

Largest(S) == CHOOSE a \in S : \A b \in S \ {a} : Less(b, a)

\* the devices an enumeration loop without family filter goes through
Enumerated(ch) == IF ch.kind = "alarm" THEN alarms ELSE devices

SamePrefix(a, b, p) == \A q \in 0..(p - 1) : RomBit(a, q) = RomBit(b, q)

\* C18: a cursor p in 0..63 returned by a search pass over faithful devices
\* is a position where the code left has bit 0 and another answering device
\* with the same bits before p has bit 1; a pass returns -1, a position
\* 0..63, or 64.
C18_CursorIsOpenBranch ==
  (pc = "returned" /\ call.op \in SearchOps) =>
    /\ call.ret \in {ERROR} \cup (0..(ROMBITS - 1)) \cup {LAST}
    /\ (FaithfulSearch /\ call.ret \in 0..(ROMBITS - 1)) =>
         /\ RomBit(code, call.ret) = 0
         /\ \E d \in Responding(call.op) \ {code} :
              SamePrefix(d, code, call.ret) /\ RomBit(d, call.ret) = 1

C18_Witness ==
  /\ FaithfulSearch
  /\ call.last = 3
  /\ call.ret = 10
  /\ code = RomB
  /\ RomC \in Responding(call.op)

\* the pair reads among the bus operations of the call
PairReads == {k \in 1..Len(bus) : IsPairRead(bus[k])}

\* C19: on a bus of N >= 1 faithful devices whose reset succeeds, every
\* search_rom(F, code, last), for any family, cursor and buffer, returns
\* after at most N passes of its loop, each of exactly 64 pair reads.
C19_SearchRomTerminates ==
  (/\ pc \in {"returned", "hung"} /\ call.op = "search_rom"
   /\ call.fault = NoFault /\ devices # {})
    => /\ pc = "returned"
       /\ call.passes \in 1..Cardinality(devices)
       /\ Cardinality(PairReads) = ROMBITS * call.passes
       /\ Len(bus) = (2 + 2 * ROMBITS) * call.passes

C19_Witness ==
  /\ pc = "returned"
  /\ call.op = "search_rom"
  /\ call.fault = NoFault
  /\ devices = Universe
  /\ call.family = 66
  /\ call.code = ZeroRom
  /\ call.last = ROMBITS - 1
  /\ call.passes = Cardinality(Universe)

\* the call of the state made again from FIRST on the buffer b, same bus
Replay(b) ==
  IF call.op = "search_rom"
  THEN search_rom(call.family, b, FIRST, call.crc, call.fault)
  ELSE alarm_search(b, FIRST, call.crc, call.fault)

\* the bits and bytes written among the bus operations ops
Writes(ops) == SelectSeq(ops, LAMBDA e : e[1] = "write")

\* a call that was given last = FIRST and ran one search pass, to the end or
\* to a pair 0b11: alarm_search, or search_rom without family filter
PassFromFirst ==
  /\ pc = "returned"
  /\ call.op \in SearchOps
  /\ call.op = "search_rom" => call.family = 0
  /\ call.last = FIRST
  /\ PairReads # {}

\* C20 as stated: a search pass started with last = FIRST does not consult
\* the buffer: on the same devices, without fault, started on a buffer of
\* other contents it writes the same bits, leaves the same 8 bytes and
\* returns the same cursor.
C20_FirstIgnoresBuffer ==
  (PassFromFirst /\ call.fault = NoFault) =>
    \A b \in Buffers :
      LET r == Replay(b)
      IN /\ Writes(r.bus) = Writes(bus)
         /\ r.ret = call.ret
         /\ r.code = code

\* C20 amended: a search pass started with last = FIRST, on a buffer of
\* other contents, writes the same bits and returns the same cursor, and
\* leaves the same 8 bytes unless it returns ERROR.
C20_FirstIgnoresBufferDone ==
  PassFromFirst =>
    \A b \in Buffers :
      LET r == Replay(b)
      IN /\ Writes(r.bus) = Writes(bus)
         /\ r.ret = call.ret
         /\ (call.ret # ERROR) => (r.code = code)

C20_Witness ==
  /\ FaithfulSearch
  /\ call.last = FIRST
  /\ call.op = "alarm_search"
  /\ call.code = OnesRom
  /\ Cardinality(alarms) = 3
  /\ call.ret \in 0..(ROMBITS - 1)
  /\ code # call.code

=============================================================================
